---- MODULE Spec2Model ----
(***************************************************************************)
(* Model of the sequence-engineering core of plasmid_maker.py: find_ori,   *)
(* build_mcs, mutate_motif, build_replication_core and build_plasmid.      *)
(*                                                                         *)
(* A Python str is modelled as a TLA+ sequence of one-character strings.   *)
(* Python indices are 0-based; the operators At and Slice convert them.    *)
(* Each function is a pure function of its arguments, so the state machine *)
(* is: Init draws the arguments of one call from bounded sets, and the     *)
(* action of that function runs the whole call and stores what it returns. *)
(***************************************************************************)
EXTENDS Integers, Sequences, FiniteSets, TLC

VARIABLES pc, fn, seq, window, step, motif, enzymes, antibiotics, markers,
          remove_sites, ret, err

vars == <<pc, fn, seq, window, step, motif, enzymes, antibiotics, markers,
          remove_sites, ret, err>>

(***************************************************************************)
(* Bounds of the model.                                                    *)
(***************************************************************************)
\* mutate_motif inputs: sequences spliced from at most MaxParts parts
MaxParts == 3
\* mutate_motif inputs: every sequence over the bases up to this length ...
MaxSeqLen == 4
\* ... against every motif of length 2..MaxMotifLen
MaxMotifLen == 2
\* find_ori inputs: every sequence up to this length, window 1..MaxOriLen+1
MaxOriLen == 4
\* find_ori inputs: step 1..MaxStep
MaxStep == 3
\* build_mcs inputs: enzyme lists up to this length
MaxMcs == 3
\* build_plasmid inputs: design and removeSites lists up to this length
MaxList == 2
\* build_plasmid inputs: short donors spliced from at most MaxDonorParts parts
MaxDonorParts == 2
\* long donors are made of MaxTiles-1 or MaxTiles tiles of DefaultStep bases
MaxTiles == 10

(***************************************************************************)
(* Python str and list primitives.                                         *)
(***************************************************************************)
Bases == {"A", "C", "G", "T"}

Min(a, b) == IF a < b THEN a ELSE b

Max(a, b) == IF a > b THEN a ELSE b

\* s[i] for a 0-based index i known to be in range
At(s, i) == s[i + 1]

\* s[a:b] for 0 <= a, with Python's clamping of the end to len(s)
Slice(s, a, b) == SubSeq(s, a + 1, Min(b, Len(s)))

\* c * n
Run(c, n) == [i \in 1..n |-> c]

\* str.upper() on one character
UpperChar(c) ==
    CASE c = "a" -> "A"
      [] c = "c" -> "C"
      [] c = "g" -> "G"
      [] c = "t" -> "T"
      [] OTHER -> c

\* str.upper()
Upper(s) == [i \in 1..Len(s) |-> UpperChar(s[i])]

\* "".join(pieces)
RECURSIVE Join(_)
Join(pieces) ==
    IF pieces = <<>> THEN <<>> ELSE Head(pieces) \o Join(Tail(pieces))

\* motif in s
Contains(s, m) ==
    \E p \in 0..(Len(s) - Len(m)) : Slice(s, p, p + Len(m)) = m

(***************************************************************************)
(* find_ori                                                                *)
(***************************************************************************)
DefaultWindow == 800

DefaultStep == 100

\* a float score a/b is kept as the exact fraction <<a, b>>, b > 0
InitialBestScore == <<-1, 1>>

\* at_fraction > best_score
ScoreGt(x, y) == x[1] * y[2] > y[1] * x[2]

\* sum(1 for b in win if b in ("A", "T"))
AtCount(win) == Cardinality({i \in 1..Len(win) : win[i] \in {"A", "T"}})

\* mutant of OriBetter: >= instead of >, the last maximum wins
OriBetter_GreaterEq(at_fraction, best_score) == ~ScoreGt(best_score, at_fraction)

\* the update of (best_start, best_score) by one scanned window
OriBetter(at_fraction, best_score) == ScoreGt(at_fraction, best_score)

\* the for loop over range(0, stop, st), from loop variable start
RECURSIVE OriLoop(_, _, _, _, _, _, _)
OriLoop(s, w, st, stop, start, best_start, best_score) ==
    IF start >= stop
    THEN best_start
    ELSE LET win == Slice(s, start, start + w)
         IN  IF win = <<>>
             THEN OriLoop(s, w, st, stop, start + st, best_start, best_score)
             ELSE LET at_fraction == <<AtCount(win), Len(win)>>
                  IN  IF OriBetter(at_fraction, best_score)
                      THEN OriLoop(s, w, st, stop, start + st, start, at_fraction)
                      ELSE OriLoop(s, w, st, stop, start + st, best_start, best_score)

\* mutant of OriStop: range(0, n, step), windows cut off by the end are scanned
OriStop_WholeLength(n, w) == n

\* range(0, max(1, n - window + 1), step): the exclusive stop
OriStop(n, w) == Max(1, n - w + 1)

find_ori(sq, win0, st) ==
    LET s == Upper(sq)
        n == Len(s)
    IN  IF n = 0
        THEN <<0, 0>>
        ELSE LET w == IF win0 > n THEN n ELSE win0
                 best_start == OriLoop(s, w, st, OriStop(n, w), 0, 0, InitialBestScore)
             IN  <<best_start, Min(best_start + w, n)>>

(***************************************************************************)
(* RE_SITE and build_mcs                                                   *)
(***************************************************************************)
RE_SITE ==
    [ EcoRI   |-> <<"G", "A", "A", "T", "T", "C">>,
      SacI    |-> <<"G", "A", "G", "C", "T", "C">>,
      KpnI    |-> <<"G", "G", "T", "A", "C", "C">>,
      SmaI    |-> <<"C", "C", "C", "G", "G", "G">>,
      BamHI   |-> <<"G", "G", "A", "T", "C", "C">>,
      XbaI    |-> <<"T", "C", "T", "A", "G", "A">>,
      SalI    |-> <<"G", "T", "C", "G", "A", "C">>,
      PstI    |-> <<"C", "T", "G", "C", "A", "G">>,
      SphI    |-> <<"G", "C", "A", "T", "G", "C">>,
      HindIII |-> <<"A", "A", "G", "C", "T", "T">> ]

\* mutant of McsStep: the motif is put in front of the pieces
McsStep_Prepend(pieces, name) ==
    IF name \notin DOMAIN RE_SITE THEN pieces ELSE <<RE_SITE[name]>> \o pieces

\* the body of the for loop: pieces after looking at one name
McsStep(pieces, name) ==
    IF name \notin DOMAIN RE_SITE THEN pieces ELSE Append(pieces, RE_SITE[name])

RECURSIVE McsLoop(_, _)
McsLoop(names, pieces) ==
    IF names = <<>>
    THEN pieces
    ELSE McsLoop(Tail(names), McsStep(pieces, Head(names)))

build_mcs(names) == Join(McsLoop(names, <<>>))

(***************************************************************************)
(* mutate_motif.  The state of the while loop is [s, i, err]; err becomes  *)
(* "IndexError" when the assignment s[j] = ... is outside the list.  The   *)
(* index i grows in every iteration, so a loop that ends at all ends       *)
(* within len(s) + 1 iterations; MutateIter runs the body that many times  *)
(* and stops once the loop has ended, splitting the count in two to keep   *)
(* the evaluation shallow.  A loop still running after that is reported  *)
(* as err = "NoTermination".                                               *)
(***************************************************************************)
\* j = i + 1
MutIndex(i) == i + 1

\* mutant of NewBase: the two branches swapped
NewBase_Swapped(old) == IF old = "A" THEN "A" ELSE "C"

\* "C" if s[j] == "A" else "A"
NewBase(old) == IF old = "A" THEN "C" ELSE "A"

\* mutant of AfterMatch: i += 1, the matched region is scanned again
AfterMatch_NoSkip(i, mlen) == i + 1

\* i += mlen after a match
AfterMatch(i, mlen) == i + mlen

\* while i <= len(s) - mlen
MutateGuard(st, m) == st.err = "none" /\ st.i <= Len(st.s) - Len(m)

\* one iteration of the while loop
MutateStep(st, m) ==
    IF ~MutateGuard(st, m)
    THEN st
    ELSE IF Slice(st.s, st.i, st.i + Len(m)) = m
         THEN LET j == MutIndex(st.i)
              IN  IF j >= Len(st.s)
                  THEN [st EXCEPT !.err = "IndexError"]
                  ELSE [s   |-> [st.s EXCEPT ![j + 1] = NewBase(At(st.s, j))],
                        i   |-> AfterMatch(st.i, Len(m)),
                        err |-> "none"]
         ELSE [st EXCEPT !.i = st.i + 1]

RECURSIVE MutateIter(_, _, _)
MutateIter(st, m, k) ==
    IF k = 0 THEN st
    ELSE IF k = 1 THEN MutateStep(st, m)
    ELSE LET half == MutateIter(st, m, k \div 2)
         IN  IF MutateGuard(half, m)
             THEN MutateIter(half, m, k - (k \div 2))
             ELSE half

mutate_motif(sq, m) ==
    LET end == MutateIter([s |-> sq, i |-> 0, err |-> "none"], m, Len(sq) + 1)
    IN  [val |-> end.s,
         err |-> IF MutateGuard(end, m) THEN "NoTermination" ELSE end.err]

(***************************************************************************)
(* build_replication_core and build_plasmid.  build_plasmid returns        *)
(* [val, err] like mutate_motif, whose error it would propagate.           *)
(* remove_sites is [given, names]: given = FALSE is Python's None.         *)
(***************************************************************************)
CoreRunLen == 100

build_replication_core == <<"A", "T", "G">> \o Run("A", CoreRunLen) \o <<"T", "A", "A">>

Spacer == <<"A", "A", "A", "A">>

\* mutant of MarkerStep: the spacer is appended before the lookup
MarkerStep_SpacerAlways(parts, ab_name, mk) ==
    IF ab_name \notin DOMAIN mk
    THEN Append(parts, Spacer)
    ELSE Append(Append(parts, Spacer), mk[ab_name])

\* the body of the marker loop: plasmid_parts after looking at one name
MarkerStep(parts, ab_name, mk) ==
    IF ab_name \notin DOMAIN mk
    THEN parts
    ELSE Append(Append(parts, Spacer), mk[ab_name])

RECURSIVE MarkerLoop(_, _, _)
MarkerLoop(names, mk, parts) ==
    IF names = <<>>
    THEN parts
    ELSE MarkerLoop(Tail(names), mk, MarkerStep(parts, Head(names), mk))

\* if mcs_seq: append the spacer and the MCS
McsPart(parts, mcs_seq) ==
    IF mcs_seq # <<>> THEN Append(Append(parts, Spacer), mcs_seq) ELSE parts

\* mutant of OriBlock: the window is taken from the start of the donor
OriBlock_FromStart(input_seq) ==
    LET o == find_ori(input_seq, DefaultWindow, DefaultStep)
    IN  Slice(input_seq, 0, o[2] - o[1])

\* ori_block = input_seq[ori_start:ori_end]
OriBlock(input_seq) ==
    LET o == find_ori(input_seq, DefaultWindow, DefaultStep)
    IN  Slice(input_seq, o[1], o[2])

\* plasmid_seq before the removal of sites
Assemble(input_seq, en, ab, mk) ==
    LET parts0 == <<OriBlock(input_seq), build_replication_core>>
        parts1 == MarkerLoop(ab, mk, parts0)
        parts2 == McsPart(parts1, build_mcs(en))
    IN  Join(parts2)

\* mutant of RemoveStep: RE_SITE[name] is read without the membership test
RemoveStep_NoUnknownCheck(st, name) ==
    IF st.err # "none" THEN st
    ELSE IF name \notin DOMAIN RE_SITE THEN [st EXCEPT !.err = "KeyError"]
    ELSE IF Contains(st.val, RE_SITE[name])
         THEN mutate_motif(st.val, RE_SITE[name])
         ELSE st

\* the body of the removal loop for one name
RemoveStep(st, name) ==
    IF st.err # "none" THEN st
    ELSE IF name \notin DOMAIN RE_SITE THEN st
    ELSE IF Contains(st.val, RE_SITE[name])
         THEN mutate_motif(st.val, RE_SITE[name])
         ELSE st

RECURSIVE RemoveLoop(_, _)
RemoveLoop(names, st) ==
    IF names = <<>>
    THEN st
    ELSE RemoveLoop(Tail(names), RemoveStep(st, Head(names)))

\* if remove_sites: (neither None nor empty)
RemoveRequested(rs) == rs.given /\ rs.names # <<>>

build_plasmid(input_seq, en, ab, mk, rs) ==
    LET plasmid_seq == [val |-> Assemble(input_seq, en, ab, mk), err |-> "none"]
    IN  IF RemoveRequested(rs)
        THEN RemoveLoop(rs.names, plasmid_seq)
        ELSE plasmid_seq

(***************************************************************************)
(* The inputs of the calls.                                                *)
(***************************************************************************)
SeqsUpTo(S, n) == UNION {[1..k -> S] : k \in 0..n}

\* every concatenation of at most n parts drawn from P
Spliced(P, n) == {Join(x) : x \in SeqsUpTo(P, n)}

EcoRI == RE_SITE["EcoRI"]

\* parts that make a motif occur, overlap itself and follow its own prefix
MotifParts(m) ==
    {<<b>> : b \in Bases} \cup {m, SubSeq(m, 1, Len(m) \div 2), SubSeq(m, 3, Len(m))}

\* a donor of n tiles of DefaultStep bases: G everywhere, except A in tile
\* hot and an EcoRI site at the start of tile eco (0: no such tile)
LongDonor(n, hot, eco) ==
    [p \in 1..(n * DefaultStep) |->
        LET tile == ((p - 1) \div DefaultStep) + 1
            off  == (p - 1) % DefaultStep
        IN  IF tile = eco /\ off < Len(EcoRI) THEN EcoRI[off + 1]
            ELSE IF tile = hot THEN "A" ELSE "G"]

LongDonors ==
    UNION {{LongDonor(n, hot, eco) : hot \in {0, 1, n}, eco \in {0, 1, n}} :
              n \in (MaxTiles - 1)..MaxTiles}

ShortDonors ==
    Spliced({<<"A">>, <<"G">>, EcoRI, SubSeq(EcoRI, 1, 5)}, MaxDonorParts)

EnzymeNames == {"EcoRI", "SalI", "Unknown"}

AntibioticNames == {"Amp", "Kan"}

MarkerSeqs == [Amp |-> <<"T", "T", "T", "T">>, Kan |-> EcoRI \o <<"G">>]

\* every marker table that holds some of the names of MarkerSeqs
MarkerTables == {[x \in K |-> MarkerSeqs[x]] : K \in SUBSET (DOMAIN MarkerSeqs)}

NoMarkers == [x \in {} |-> <<>>]

AmpTable == [Amp |-> MarkerSeqs["Amp"]]

NoRemove == [given |-> FALSE, names |-> <<>>]

RemoveList(names) == [given |-> TRUE, names |-> names]

Idle ==
    /\ pc = "call"
    /\ ret = <<>>
    /\ err = "none"

NoDesign ==
    /\ enzymes = <<>>
    /\ antibiotics = <<>>
    /\ markers = NoMarkers
    /\ remove_sites = NoRemove

InitFindOri ==
    /\ fn = "find_ori"
    /\ \/ /\ seq \in SeqsUpTo(Bases, MaxOriLen)
          /\ window \in 1..(MaxOriLen + 1)
          /\ step \in 1..MaxStep
       \/ /\ seq \in LongDonors \cup {Run("A", 2 * MaxTiles * DefaultStep)}
          /\ window = DefaultWindow
          /\ step = DefaultStep
    /\ motif = <<>>
    /\ NoDesign
    /\ Idle

InitBuildMcs ==
    /\ fn = "build_mcs"
    /\ enzymes \in SeqsUpTo(DOMAIN RE_SITE \cup {"Unknown"}, MaxMcs)
    /\ seq = <<>>
    /\ window = DefaultWindow
    /\ step = DefaultStep
    /\ motif = <<>>
    /\ antibiotics = <<>>
    /\ markers = NoMarkers
    /\ remove_sites = NoRemove
    /\ Idle

InitMutate ==
    /\ fn = "mutate_motif"
    /\ \/ /\ motif \in {RE_SITE[e] : e \in DOMAIN RE_SITE}
          /\ seq \in Spliced(MotifParts(motif), MaxParts)
       \/ /\ motif \in UNION {[1..k -> Bases] : k \in 2..MaxMotifLen}
          /\ seq \in SeqsUpTo(Bases, MaxSeqLen)
    /\ window = DefaultWindow
    /\ step = DefaultStep
    /\ NoDesign
    /\ Idle

InitBuildPlasmid ==
    /\ fn = "build_plasmid"
    /\ \/ /\ seq \in {<<>>, <<"A", "G">> \o EcoRI \o <<"T">>}
          /\ enzymes \in SeqsUpTo(EnzymeNames, MaxList)
          /\ antibiotics \in SeqsUpTo(AntibioticNames, MaxList)
          /\ markers \in MarkerTables
          /\ remove_sites \in {NoRemove, RemoveList(<<>>), RemoveList(<<"EcoRI">>),
                                RemoveList(<<"Unknown", "SalI", "EcoRI">>)}
       \/ /\ seq \in ShortDonors
          /\ \/ enzymes = <<>> /\ antibiotics = <<>>
             \/ enzymes = <<"EcoRI">> /\ antibiotics = <<"Amp">>
             \/ enzymes = <<"SalI", "Unknown", "EcoRI">> /\ antibiotics = <<"Kan", "Amp">>
          /\ markers \in {NoMarkers, AmpTable}
          /\ remove_sites \in
                {NoRemove} \cup {RemoveList(x) : x \in SeqsUpTo(EnzymeNames, MaxList)}
       \/ /\ seq \in LongDonors
          /\ \/ enzymes = <<>> /\ antibiotics = <<>>
             \/ enzymes = <<"EcoRI">> /\ antibiotics = <<"Amp">>
          /\ markers = AmpTable
          /\ remove_sites \in {NoRemove, RemoveList(<<"EcoRI">>),
                                RemoveList(<<"Unknown", "SalI", "EcoRI">>)}
    /\ window = DefaultWindow
    /\ step = DefaultStep
    /\ motif = <<>>
    /\ Idle

Init == InitFindOri \/ InitBuildMcs \/ InitMutate \/ InitBuildPlasmid

(***************************************************************************)
(* One action per function: the whole call.                                *)
(***************************************************************************)
Inputs == <<fn, seq, window, step, motif, enzymes, antibiotics, markers, remove_sites>>

FindOri ==
    /\ pc = "call"
    /\ fn = "find_ori"
    /\ ret' = find_ori(seq, window, step)
    /\ err' = "none"
    /\ pc' = "return"
    /\ UNCHANGED Inputs

BuildMcs ==
    /\ pc = "call"
    /\ fn = "build_mcs"
    /\ ret' = build_mcs(enzymes)
    /\ err' = "none"
    /\ pc' = "return"
    /\ UNCHANGED Inputs

MutateMotif ==
    /\ pc = "call"
    /\ fn = "mutate_motif"
    /\ LET r == mutate_motif(seq, motif)
       IN  /\ ret' = r.val
           /\ err' = r.err
    /\ pc' = "return"
    /\ UNCHANGED Inputs

BuildPlasmid ==
    /\ pc = "call"
    /\ fn = "build_plasmid"
    /\ LET r == build_plasmid(seq, enzymes, antibiotics, markers, remove_sites)
       IN  /\ ret' = r.val
           /\ err' = r.err
    /\ pc' = "return"
    /\ UNCHANGED Inputs

Next == FindOri \/ BuildMcs \/ MutateMotif \/ BuildPlasmid

Spec == Init /\ [][Next]_vars

\* the calls of one function, or of the two that remove sites
SpecOri == InitFindOri /\ [][FindOri]_vars

SpecMcs == InitBuildMcs /\ [][BuildMcs]_vars

SpecMutate == InitMutate /\ [][MutateMotif]_vars

SpecPlasmid == InitBuildPlasmid /\ [][BuildPlasmid]_vars

NextRemoval == MutateMotif \/ BuildPlasmid

SpecRemoval == (InitMutate \/ InitBuildPlasmid) /\ [][NextRemoval]_vars

(***************************************************************************)
(* Vocabulary of the claims.                                               *)
(***************************************************************************)
Returned(f) == pc = "return" /\ fn = f

Catalog == {RE_SITE[e] : e \in DOMAIN RE_SITE}

\* m occurs in s at the 0-based start p
OccursAt(s, m, p) ==
    /\ p >= 0
    /\ p + Len(m) <= Len(s)
    /\ \A k \in 1..Len(m) : s[p + k] = m[k]

Occurrences(s, m) == {p \in 0..(Len(s) - Len(m)) : OccursAt(s, m, p)}

\* the ori block as the claims state it: donor[s:e] for (s, e) = find_ori(donor)
ChosenOri(donor) ==
    LET o == find_ori(donor, DefaultWindow, DefaultStep)
    IN  [p \in 1..(o[2] - o[1]) |-> donor[o[1] + p]]

\* 'AAAA' + markers[name] for each name from the k-th on that is a key of mk
RECURSIVE PresentMarkers(_, _, _)
PresentMarkers(ab, mk, k) ==
    IF k > Len(ab)
    THEN <<>>
    ELSE (IF ab[k] \in DOMAIN mk THEN Spacer \o mk[ab[k]] ELSE <<>>)
         \o PresentMarkers(ab, mk, k + 1)

\* the catalog motifs of the names from the k-th on that are in RE_SITE
RECURSIVE KnownMotifs(_, _)
KnownMotifs(names, k) ==
    IF k > Len(names)
    THEN <<>>
    ELSE (IF names[k] \in DOMAIN RE_SITE THEN RE_SITE[names[k]] ELSE <<>>)
         \o KnownMotifs(names, k + 1)

TheCore == <<"A", "T", "G">> \o [i \in 1..100 |-> "A"] \o <<"T", "A", "A">>

(***************************************************************************)
(* C1: with no removeSites (None or empty), build_plasmid returns exactly  *)
(* donor[s:e] for (s, e) = find_ori(donor), then the replication core,     *)
(* then 'AAAA' + markers[name] for each antibiotic name of the design that *)
(* is a key of the marker table, in design order (absent names contribute  *)
(* nothing), then 'AAAA' + build_mcs(enzymes) iff that MCS is non-empty.   *)
(***************************************************************************)
C1_AssemblyOrder ==
    (Returned("build_plasmid") /\ (~remove_sites.given \/ remove_sites.names = <<>>))
    => ret = ChosenOri(seq) \o TheCore \o PresentMarkers(antibiotics, markers, 1)
             \o (IF KnownMotifs(enzymes, 1) = <<>>
                 THEN <<>>
                 ELSE Spacer \o KnownMotifs(enzymes, 1))

\* a call without removal whose design has an absent antibiotic before a
\* present one and an unknown enzyme before a known one
C1_Witness ==
    /\ Returned("build_plasmid")
    /\ ~remove_sites.given
    /\ Len(antibiotics) = 2
    /\ antibiotics[1] \notin DOMAIN markers
    /\ antibiotics[2] \in DOMAIN markers
    /\ Len(enzymes) = 2
    /\ enzymes[1] \notin DOMAIN RE_SITE
    /\ enzymes[2] \in DOMAIN RE_SITE
    /\ Len(ret) = Len(seq) + Len(TheCore) + 2 * Len(Spacer)
                  + Len(markers[antibiotics[2]]) + Len(RE_SITE[enzymes[2]])

(***************************************************************************)
(* C2: the sequence build_plasmid returns for removeSites = ['EcoRI']      *)
(* holds no GAATTC anywhere, and one mutate_motif pass with motif GAATTC   *)
(* leaves no GAATTC in its result, for every input.                        *)
(***************************************************************************)
C2_NoEcoRILeft ==
    /\ (Returned("build_plasmid") /\ remove_sites = RemoveList(<<"EcoRI">>))
       => Occurrences(ret, EcoRI) = {}
    /\ (Returned("mutate_motif") /\ motif = EcoRI)
       => Occurrences(ret, EcoRI) = {}

\* a plasmid whose ori block and MCS both held GAATTC before the removal
C2_Witness ==
    /\ Returned("build_plasmid")
    /\ remove_sites = RemoveList(<<"EcoRI">>)
    /\ Occurrences(ChosenOri(seq), EcoRI) # {}
    /\ enzymes = <<"EcoRI">>
    /\ Len(ret) > DefaultWindow

(***************************************************************************)
(* C3: mutate_motif is idempotent for each of the ten catalog motifs:      *)
(* mutate_motif(mutate_motif(s, m), m) = mutate_motif(s, m).               *)
(***************************************************************************)
C3_Idempotent ==
    (Returned("mutate_motif") /\ motif \in Catalog)
    => mutate_motif(ret, motif).val = ret

(***************************************************************************)
(* C4: for a catalog motif m and a sequence s that contains m, one call of *)
(* mutate_motif(s, m) strictly reduces the number of occurrences of m      *)
(* (counted at every start) and re-introduces no occurrence of m.          *)
(***************************************************************************)
C4_StrictlyReduces ==
    (Returned("mutate_motif") /\ motif \in Catalog /\ Occurrences(seq, motif) # {})
    => /\ Cardinality(Occurrences(ret, motif)) < Cardinality(Occurrences(seq, motif))
       /\ Occurrences(ret, motif) \subseteq Occurrences(seq, motif)

(***************************************************************************)
(* C5 as stated: for a donor that contains GAATTC, enzymes = ['EcoRI'],    *)
(* antibiotics = ['Amp'], markers = {'Amp': 'TTTT'} and removeSites =      *)
(* ['EcoRI'], the result starts with the ori block donor[s:e] chosen by    *)
(* find_ori and has the replication core immediately after it.             *)
(***************************************************************************)
C5_Case ==
    /\ Returned("build_plasmid")
    /\ Occurrences(seq, EcoRI) # {}
    /\ enzymes = <<"EcoRI">>
    /\ antibiotics = <<"Amp">>
    /\ markers = [Amp |-> <<"T", "T", "T", "T">>]
    /\ remove_sites = RemoveList(<<"EcoRI">>)

C5_CoreFollowsOri ==
    LET n == Len(ChosenOri(seq))
    IN  SubSeq(ret, n + 1, n + Len(TheCore)) = TheCore

C5_StartsWithOri ==
    C5_Case => /\ SubSeq(ret, 1, Len(ChosenOri(seq))) = ChosenOri(seq)
               /\ C5_CoreFollowsOri

(***************************************************************************)
(* C5 as amended: in that case the result starts with the ori block        *)
(* donor[s:e] in which the second base of every GAATTC lying in the block  *)
(* is replaced by C (so with donor[s:e] itself when the block holds no     *)
(* GAATTC), and has the replication core immediately after it.             *)
(***************************************************************************)
C5_StartsWithMutatedOri ==
    C5_Case =>
        LET ori == ChosenOri(seq)
        IN  /\ Len(ret) >= Len(ori)
            /\ \A p \in 1..Len(ori) :
                  ret[p] = IF OccursAt(ori, EcoRI, p - 2) THEN "C" ELSE ori[p]
            /\ C5_CoreFollowsOri

\* the case with a donor longer than the window, whose chosen block does not
\* start at 0 and holds a GAATTC that the removal changed
C5_Witness ==
    /\ C5_Case
    /\ find_ori(seq, DefaultWindow, DefaultStep)[1] > 0
    /\ Occurrences(ChosenOri(seq), EcoRI) # {}
    /\ SubSeq(ret, 1, Len(ChosenOri(seq))) # ChosenOri(seq)

(***************************************************************************)
(* C6: for a non-empty sequence, find_ori returns as start the smallest    *)
(* scanned start (0, step, 2*step, ... up to max(0, len - w), w =          *)
(* min(window, len)) whose window has the maximum A/T count among the      *)
(* scanned windows; a uniform sequence such as 'A'*2000 gives (0, 800) and *)
(* a sequence of G and C only gives start 0.                               *)
(***************************************************************************)
C6_W == Min(window, Len(seq))

C6_Scanned == {p \in 0..Max(0, Len(seq) - C6_W) : p % step = 0}

C6_AT(p) == Cardinality({k \in 1..C6_W : seq[p + k] \in {"A", "T"}})

C6_FirstMaximum ==
    (Returned("find_ori") /\ seq # <<>>)
    => /\ ret[1] \in C6_Scanned
       /\ \A q \in C6_Scanned :
             /\ C6_AT(q) <= C6_AT(ret[1])
             /\ C6_AT(q) = C6_AT(ret[1]) => ret[1] <= q
       /\ (\A k \in 1..Len(seq) : seq[k] \in {"G", "C"}) => ret[1] = 0
       /\ (window = 800 /\ Len(seq) >= 2000 /\ \A k \in 1..Len(seq) : seq[k] = "A")
          => ret = <<0, 800>>

\* a start after 0 wins, and a later scanned window ties with it
C6_Witness ==
    /\ Returned("find_ori")
    /\ seq # <<>>
    /\ ret[1] > 0
    /\ \E q \in C6_Scanned : q > ret[1] /\ C6_AT(q) = C6_AT(ret[1])

(***************************************************************************)
(* C7: for a non-empty s, find_ori returns (start, end) with               *)
(* 0 <= start <= end <= len(s), end - start = window when window <= len(s) *)
(* and (start, end) = (0, len(s)) when window > len(s); for the empty      *)
(* sequence it returns (0, 0).                                             *)
(***************************************************************************)
C7_WindowBounds ==
    Returned("find_ori")
    => IF seq = <<>>
       THEN ret = <<0, 0>>
       ELSE /\ 0 <= ret[1] /\ ret[1] <= ret[2] /\ ret[2] <= Len(seq)
            /\ window <= Len(seq) => ret[2] - ret[1] = window
            /\ window > Len(seq) => ret = <<0, Len(seq)>>

\* a window shorter than the sequence, chosen away from its start
C7_Witness ==
    /\ Returned("find_ori")
    /\ window < Len(seq)
    /\ ret[1] > 0
    /\ ret[2] = Len(seq)

(***************************************************************************)
(* C8: build_mcs returns the concatenation, in input order and with no     *)
(* spacer, of the catalog motifs of exactly the names that are in RE_SITE; *)
(* unknown names are skipped, and the result is empty when none resolves.  *)
(***************************************************************************)
C8_McsInOrder ==
    Returned("build_mcs")
    => /\ ret = KnownMotifs(enzymes, 1)
       /\ enzymes = <<"EcoRI", "BamHI">> => ret = RE_SITE["EcoRI"] \o RE_SITE["BamHI"]
       /\ enzymes = <<"EcoRI", "Unknown", "BamHI">>
          => ret = RE_SITE["EcoRI"] \o RE_SITE["BamHI"]
       /\ (\A k \in 1..Len(enzymes) : enzymes[k] \notin DOMAIN RE_SITE) => ret = <<>>

\* the call of the example: an unknown name between two known ones
C8_Witness ==
    /\ Returned("build_mcs")
    /\ enzymes = <<"EcoRI", "Unknown", "BamHI">>
    /\ Len(ret) = 12

(***************************************************************************)
(* C9: build_plasmid never ends in an error and always returns a sequence, *)
(* for every donor over {A,C,G,T} (also empty), design (also empty lists   *)
(* and unknown names), marker table (also empty) and removeSites list      *)
(* (also unknown names): unknown identifiers are skipped, and no mutation  *)
(* pass reads or writes outside the sequence or fails to end.              *)
(***************************************************************************)
C9_NeverFails ==
    Returned("build_plasmid")
    => /\ err = "none"
       /\ \A k \in 1..Len(ret) : ret[k] \in Bases
       /\ Len(ret) >= Len(TheCore)

\* an empty donor with unknown names in every list, where the removal
\* changed the last block of the sequence
C9_Witness ==
    /\ Returned("build_plasmid")
    /\ seq = <<>>
    /\ enzymes = <<"SalI", "Unknown", "EcoRI">>
    /\ antibiotics = <<"Kan", "Amp">>
    /\ markers = NoMarkers
    /\ remove_sites = RemoveList(<<"Unknown", "EcoRI">>)
    /\ ret[Len(ret) - 4] = "C"

(***************************************************************************)
(* C10: mutate_motif changes nothing but the second base of matches: for a *)
(* motif m of length >= 2 the result has the length of s, every position   *)
(* where it differs from s is p + 1 for a start p at which m occurs in the *)
(* original s, the new base there is C if the old one was A and A          *)
(* otherwise, and when m does not occur in s the result equals s.          *)
(***************************************************************************)
C10_OnlySecondBases ==
    (Returned("mutate_motif") /\ Len(motif) >= 2)
    => /\ err = "none"
       /\ Len(ret) = Len(seq)
       /\ \A p \in 0..(Len(seq) - 1) :
             ret[p + 1] # seq[p + 1]
             => /\ OccursAt(seq, motif, p - 1)
                /\ ret[p + 1] = IF seq[p + 1] = "A" THEN "C" ELSE "A"
       /\ Occurrences(seq, motif) = {} => ret = seq

\* two occurrences that overlap: the first is changed, the second is skipped
C10_Witness ==
    /\ Returned("mutate_motif")
    /\ Len(motif) >= 2
    /\ \E p, q \in Occurrences(seq, motif) :
          /\ p < q
          /\ q < p + Len(motif)
          /\ ret[p + 2] # seq[p + 2]
          /\ ret[q + 2] = seq[q + 2]

====
